---- MODULE Spec2Model ----
(***************************************************************************)
(* Proctoring attention engine of Marco, the AI interviewer.               *)
(*                                                                         *)
(* The model covers the per-session head-pose tracker                      *)
(* (services/headpose_detection.py, services/face_tracking_service.py),    *)
(* the process-wide tracker map (backend/dependencies.py), the             *)
(* interview_sessions / proctoring_events tables (backend/database.py)     *)
(* and the HTTP handlers that drive them (backend/routers/proctoring.py,   *)
(* backend/routers/interview.py).                                          *)
(*                                                                         *)
(* Time is counted in whole seconds: time.time() and SQLite's              *)
(* CURRENT_TIMESTAMP both read the variable now.                           *)
(***************************************************************************)
EXTENDS Integers, Sequences, FiniteSets, Bags, TLC

\* ------------------------------------------------------------------ bounds
MaxTime == 3
MaxViolations == 5
MaxTabSwitches == 2

\* --------------------------------------------------------- program constants
yaw_threshold == 30
looking_away_duration == 2
GazeLimit == 5
TabLimit == 2

\* ------------------------------------------------------------ input domains
SessionIds == {1}
Yaws == {-45, 30, 31}

None == -1

FrameKinds ==
  {"undecodable", "no_face", "multiple_faces", "landmarks_none",
   "processing_error", "pnp_failed"}

Frames ==
  [kind : FrameKinds, yaw : {0}] \cup [kind : {"pose"}, yaw : Yaws]

VARIABLES
  now,             \* wall clock, seconds
  models_present,  \* the three model files exist under services/models
  trackers,        \* _session_face_services: session id -> FaceTrackingService
  sessions,        \* table interview_sessions: id -> row
  events,          \* table proctoring_events: a bag of rows
  response,        \* the response of the last handler call
  exc,             \* history: the current run of looking-away frames per session
  everAway,        \* history: sessions that had a frame with |yaw| > threshold
  calls,           \* the handler calls of SpecAsync, suspended or returned: a bag
  issued,          \* history: the counter UPDATEs executed per session
  orphans          \* per session, the trackers evicted from the map, in order

vars ==
  <<now, models_present, trackers, sessions, events, response, exc, everAway,
    calls, issued, orphans>>

Abs(x) == IF x < 0 THEN -x ELSE x

\* ------------------------------------------------------------ head pose

\* HeadPoseDetector.__init__: the tracking variables of a new detector,
\* wrapped by FaceTrackingService.__init__ (violation_count = 0).
NewTracker ==
  [looking_away_start_time |-> None, total_violations |-> 0, violation_count |-> 0]

\* HeadPoseDetector.detect_face: None, "multiple" or a face rectangle.
detect_face(f) ==
  IF f.kind = "no_face" THEN "None"
  ELSE IF f.kind = "multiple_faces" THEN "multiple"
  ELSE "rect"

\* HeadPoseDetector.get_landmarks: TRUE when six landmark points come back.
get_landmarks(f) == f.kind # "landmarks_none"

\* HeadPoseDetector.estimate_head_pose: (pitch, yaw, roll); a failed
\* solvePnP returns the zero pose.
estimate_head_pose(f) ==
  IF f.kind = "pnp_failed" THEN <<0, 0, 0>> ELSE <<0, f.yaw, 0>>

\* The status dictionary HeadPoseDetector.process_frame starts from.
status0 ==
  [face_detected |-> FALSE, multiple_faces |-> FALSE, looking_away |-> FALSE,
   pitch |-> 0, yaw |-> 0, roll |-> 0]

\* Variant of is_looking_away: a yaw at the threshold counts as looking away.
is_looking_away_inclusive(yaw) == Abs(yaw) >= yaw_threshold

\* The looking-away test on the estimated yaw.
is_looking_away(yaw) == Abs(yaw) > yaw_threshold

\* Variant of no_single_face: the pending excursion start is kept.
no_single_face_keeps_start(t) == t

\* The tracker after a frame in which no face or several faces were found.
no_single_face(t) == [t EXCEPT !.looking_away_start_time = None]

\* The test that turns a sustained excursion into a violation.
duration_exceeded(duration) == duration > looking_away_duration

\* HeadPoseDetector.process_frame on tracker t at time tm.
\* Result: the tracker after the call, the status dictionary, and whether
\* the call raised.
detector_process_frame(t, f, tm) ==
  IF detect_face(f) = "None" THEN
    [tracker |-> no_single_face(t),
     status |-> status0, raised |-> FALSE]
  ELSE IF detect_face(f) = "multiple" THEN
    [tracker |-> no_single_face(t),
     status |-> [status0 EXCEPT !.multiple_faces = TRUE], raised |-> FALSE]
  ELSE IF f.kind = "processing_error" THEN
    [tracker |-> t, status |-> status0, raised |-> TRUE]
  ELSE IF ~get_landmarks(f) THEN
    [tracker |-> t, status |-> [status0 EXCEPT !.face_detected = TRUE],
     raised |-> FALSE]
  ELSE
    LET pose == estimate_head_pose(f)
        st == [status0 EXCEPT !.face_detected = TRUE, !.pitch = pose[1],
                              !.yaw = pose[2], !.roll = pose[3]]
    IN IF is_looking_away(pose[2]) THEN
         IF t.looking_away_start_time = None THEN
           [tracker |-> [t EXCEPT !.looking_away_start_time = tm],
            status |-> [st EXCEPT !.looking_away = TRUE], raised |-> FALSE]
         ELSE IF duration_exceeded(tm - t.looking_away_start_time) THEN
           [tracker |-> [t EXCEPT !.total_violations = @ + 1],
            status |-> [st EXCEPT !.looking_away = TRUE], raised |-> FALSE]
         ELSE
           [tracker |-> t,
            status |-> [st EXCEPT !.looking_away = TRUE], raised |-> FALSE]
       ELSE
         [tracker |-> [t EXCEPT !.looking_away_start_time = None],
          status |-> st, raised |-> FALSE]

\* FaceTrackingService.process_frame: the tracker after the call and the
\* FaceMetrics it returns.
service_process_frame(t, f, tm) ==
  LET r == detector_process_frame(t, f, tm)
      s == r.status
  IN IF r.raised THEN
       [tracker |-> r.tracker,
        metrics |-> [is_face_detected |-> FALSE, is_looking_away |-> FALSE,
                     head_pose |-> <<0, 0, 0>>,
                     violation_message |-> "Processing error"]]
     ELSE
       [tracker |->
          IF s.face_detected /\ ~s.multiple_faces /\ s.looking_away
          THEN [r.tracker EXCEPT !.violation_count = r.tracker.total_violations]
          ELSE r.tracker,
        metrics |->
          [is_face_detected |-> s.face_detected,
           is_looking_away |-> s.looking_away,
           head_pose |-> <<s.pitch, s.yaw, s.roll>>,
           violation_message |->
             IF ~s.face_detected THEN "No face detected"
             ELSE IF s.multiple_faces THEN "Multiple faces detected"
             ELSE IF s.looking_away THEN "Looking away"
             ELSE ""]]

\* ------------------------------------------------------------ tracker map

\* get_or_create_face_service: the map after the call.
get_or_create_face_service(ts, s) ==
  IF s \in DOMAIN ts THEN ts ELSE [x \in DOMAIN ts \cup {s} |->
                                     IF x = s THEN NewTracker ELSE ts[x]]

\* cleanup_face_service: the map after the call.
cleanup_face_service(ts, s) == [x \in DOMAIN ts \ {s} |-> ts[x]]

\* ------------------------------------------------------------ database

NULL == "NULL"

\* Database.create_session: the row INSERTed, columns at their defaults.
NewRow ==
  [status |-> "in_progress", termination_reason |-> NULL,
   gaze_violations |-> 0, tab_switch_count |-> 0, end_time |-> None]

\* Database.update_session_status: UPDATE ... WHERE id = s.
update_session_status(tbl, s, status, reason, tm) ==
  IF s \in DOMAIN tbl
  THEN [tbl EXCEPT ![s] = [@ EXCEPT !.status = status,
                                    !.termination_reason = reason,
                                    !.end_time = tm]]
  ELSE tbl

\* Variant of increment_violation: the UPDATE has no WHERE clause.
increment_violation_every_row(tbl, s, violation_type) ==
  [x \in DOMAIN tbl |->
     IF violation_type = "gaze"
     THEN [tbl[x] EXCEPT !.gaze_violations = @ + 1]
     ELSE [tbl[x] EXCEPT !.tab_switch_count = @ + 1]]

\* Database.increment_violation: UPDATE ... SET c = c + 1 WHERE id = s.
increment_violation(tbl, s, violation_type) ==
  IF s \in DOMAIN tbl
  THEN IF violation_type = "gaze"
       THEN [tbl EXCEPT ![s].gaze_violations = @ + 1]
       ELSE [tbl EXCEPT ![s].tab_switch_count = @ + 1]
  ELSE tbl

\* Database.log_proctoring_event: INSERT INTO proctoring_events.
log_proctoring_event(evs, s, event_type) ==
  evs (+) SetToBag({[session_id |-> s, event_type |-> event_type]})

\* The number of tab-switch calls made for session s: each call inserts
\* one tab_switch event.
tab_switch_calls(evs, s) ==
  CopiesIn([session_id |-> s, event_type |-> "tab_switch"], evs)

\* ------------------------------------------------------------ history

\* A frame whose head pose has |yaw| above the threshold.
Away(f) == f.kind = "pose" /\ Abs(f.yaw) > yaw_threshold

\* first: the time of the first frame of the current run of looking-away
\* frames; viol: the violations the tracker counted during that run;
\* broke: the last processed frame ended a run that had lasted longer than
\* looking_away_duration.
NoRun == [first |-> None, viol |-> 0, broke |-> FALSE]

\* The run of consecutive looking-away frames of a session after frame f
\* was processed by tracker before/after.
next_run(run, f, before, after, tm) ==
  IF Away(f)
  THEN [first |-> IF run.first = None THEN tm ELSE run.first,
        viol |-> run.viol + (after.total_violations - before.total_violations),
        broke |-> FALSE]
  ELSE [NoRun EXCEPT !.broke = run.first # None
                               /\ tm - run.first > looking_away_duration]

\* ------------------------------------------------------------ handlers
\* In Spec every handler runs from its first line to its response in one
\* step, so no call is ever suspended and no evicted tracker is ever
\* used again: calls and orphans stay empty.

Init ==
  /\ now = 0
  /\ models_present \in BOOLEAN
  /\ trackers = <<>>
  /\ sessions = <<>>
  /\ events = EmptyBag
  /\ response = [op |-> "none"]
  /\ exc = [s \in SessionIds |-> NoRun]
  /\ everAway = {}
  /\ calls = EmptyBag
  /\ orphans = [s \in SessionIds |-> <<>>]
  /\ issued = [s \in SessionIds |-> [gaze |-> 0, tab |-> 0]]

\* The clock advances by one second.
Tick ==
  /\ now < MaxTime
  /\ now' = now + 1
  /\ UNCHANGED <<orphans, calls, issued, models_present, trackers, sessions, events,
                 response, exc, everAway>>

\* POST /api/interview/start: create_session gives the row the next id.
start_interview ==
  LET id == Cardinality(DOMAIN sessions) + 1
  IN /\ id \in SessionIds
     /\ sessions' = [x \in DOMAIN sessions \cup {id} |->
                       IF x = id THEN NewRow ELSE sessions[x]]
     /\ response' = [op |-> "start", session_id |-> id]
     /\ UNCHANGED <<orphans, calls, issued, now, models_present, trackers, events, exc, everAway>>

\* Variant of gaze_should_terminate: only a count above the limit terminates.
gaze_should_terminate_above(row) == row.gaze_violations > GazeLimit

\* analyze_frame's termination test on the session row.
gaze_should_terminate(row) == row.gaze_violations >= GazeLimit

\* Variant of tab_should_terminate: only a count above the limit terminates.
tab_should_terminate_above(tab_switches) == tab_switches > TabLimit

\* log_tab_switch's termination test on the tab-switch count.
tab_should_terminate(tab_switches) == tab_switches >= TabLimit

\* The response of analyze_frame's except branch.
frame_error(s) ==
  [op |-> "frame", session_id |-> s, face_detected |-> FALSE,
   looking_away |-> FALSE, violation_detected |-> FALSE,
   should_terminate |-> FALSE, violation_count |-> 0,
   message |-> "Face tracking error"]

\* Variant of violation_detected: any detected face is a violation.
violation_detected_for_any_face(metrics) == metrics.is_face_detected

\* The violation_detected field of analyze_frame's response.
violation_detected(metrics) ==
  metrics.is_looking_away /\ metrics.is_face_detected

\* Variant of new_violation: a tracker count equal to the durable counter
\* is persisted again.
new_violation_or_equal(current_violations, db_violations) ==
  current_violations >= db_violations

\* analyze_frame's test that the tracker counted a violation the session
\* row does not have yet.
new_violation(current_violations, db_violations) ==
  current_violations > db_violations

\* Variant of img_is_None: every buffer decodes to an image.
img_always_decodes(f) == FALSE

\* cv2.imdecode returned None for the uploaded buffer.
img_is_None(f) == f.kind = "undecodable"

\* POST /api/proctoring/frame/{s}
analyze_frame(s, f) ==
  IF s \notin DOMAIN trackers /\ ~models_present THEN
    \* FaceTrackingService() raises FileNotFoundError
    /\ response' = frame_error(s)
    /\ UNCHANGED <<orphans, calls, issued, now, models_present, trackers, sessions, events, exc, everAway>>
  ELSE
    LET ts1 == get_or_create_face_service(trackers, s)
    IN IF img_is_None(f) THEN
         /\ trackers' = ts1
         /\ response' = [op |-> "frame", session_id |-> s,
                         face_detected |-> FALSE, looking_away |-> FALSE,
                         violation_detected |-> FALSE,
                         should_terminate |-> FALSE, violation_count |-> 0,
                         message |-> "Invalid image data"]
         /\ UNCHANGED <<orphans, calls, issued, now, models_present, sessions, events, exc, everAway>>
       ELSE
         LET r == service_process_frame(ts1[s], f, now)
             metrics == r.metrics
             ts2 == [ts1 EXCEPT ![s] = r.tracker]
             current_violations == r.tracker.violation_count
         IN /\ r.tracker.total_violations <= MaxViolations
            /\ trackers' = ts2
            /\ exc' = [exc EXCEPT ![s] = next_run(@, f, ts1[s], r.tracker, now)]
            /\ everAway' = IF Away(f) THEN everAway \cup {s} ELSE everAway
            /\ UNCHANGED <<orphans, calls, now, models_present>>
            /\ IF s \notin DOMAIN sessions THEN
                 \* get_session returns None; session.get raises
                 /\ response' = frame_error(s)
                 /\ UNCHANGED <<sessions, events, issued>>
               ELSE
                 LET db_violations == sessions[s].gaze_violations
                     counted == new_violation(current_violations, db_violations)
                     tbl1 == IF counted
                             THEN increment_violation(sessions, s, "gaze")
                             ELSE sessions
                     evs1 == IF counted
                             THEN log_proctoring_event(events, s, "gaze_violation")
                             ELSE events
                     should_terminate == gaze_should_terminate(tbl1[s])
                     tbl2 == IF should_terminate
                             THEN update_session_status(tbl1, s, "terminated",
                                    "excessive_gaze_violations", now)
                             ELSE tbl1
                 IN /\ sessions' = tbl2
                    /\ events' = evs1
                    /\ issued' = IF counted
                                 THEN [issued EXCEPT ![s].gaze = @ + 1]
                                 ELSE issued
                    /\ response' =
                         [op |-> "frame", session_id |-> s,
                          face_detected |-> metrics.is_face_detected,
                          looking_away |-> metrics.is_looking_away,
                          violation_detected |-> violation_detected(metrics),
                          should_terminate |-> should_terminate,
                          violation_count |-> r.tracker.violation_count,
                          message |->
                            IF metrics.violation_message # ""
                            THEN metrics.violation_message
                            ELSE "Frame analyzed successfully"]

AnalyzeFrame == \E s \in SessionIds, f \in Frames : analyze_frame(s, f)

\* POST /api/proctoring/tab-switch/{s}
log_tab_switch(s) ==
  LET tbl1 == increment_violation(sessions, s, "tab_switch")
      evs1 == log_proctoring_event(events, s, "tab_switch")
      tab_switches == IF s \in DOMAIN tbl1 THEN tbl1[s].tab_switch_count ELSE 0
      should_terminate == tab_should_terminate(tab_switches)
      tbl2 == IF should_terminate
              THEN update_session_status(tbl1, s, "terminated",
                     "excessive_tab_switches", now)
              ELSE tbl1
  IN /\ tab_switch_calls(evs1, s) <= MaxTabSwitches
     /\ sessions' = tbl2
     /\ events' = evs1
     /\ response' = [op |-> "tab_switch", session_id |-> s,
                     total_tab_switches |-> tab_switches,
                     should_terminate |-> should_terminate]
     /\ issued' = IF s \in DOMAIN sessions
                  THEN [issued EXCEPT ![s].tab = @ + 1] ELSE issued
     /\ UNCHANGED <<orphans, calls, now, models_present, trackers, exc, everAway>>

LogTabSwitch == \E s \in SessionIds : log_tab_switch(s)

\* POST /api/interview/end
end_interview(s) ==
  /\ sessions' = update_session_status(sessions, s, "completed", NULL, now)
  /\ trackers' = cleanup_face_service(trackers, s)
  /\ response' = [op |-> "end", session_id |-> s]
  /\ UNCHANGED <<orphans, calls, issued, now, models_present, events, exc, everAway>>

EndInterview == \E s \in SessionIds : end_interview(s)

\* GET /api/proctoring/status/{s}: FaceTrackingService has no attribute
\* max_violations, so the handler raises after it fetched the tracker.
get_violation_status(s) ==
  /\ IF s \notin DOMAIN sessions THEN
       /\ response' = [op |-> "status", session_id |-> s, http |-> 404]
       /\ UNCHANGED trackers
     ELSE IF s \notin DOMAIN trackers /\ ~models_present THEN
       /\ response' = [op |-> "status", session_id |-> s, http |-> 500]
       /\ UNCHANGED trackers
     ELSE
       /\ trackers' = get_or_create_face_service(trackers, s)
       /\ response' = [op |-> "status", session_id |-> s, http |-> 500]
  /\ UNCHANGED <<orphans, calls, issued, now, models_present, sessions, events, exc, everAway>>

GetViolationStatus == \E s \in SessionIds : get_violation_status(s)

Next ==
  \/ Tick
  \/ start_interview
  \/ AnalyzeFrame
  \/ LogTabSwitch
  \/ EndInterview
  \/ GetViolationStatus

Spec == Init /\ [][Next]_vars

\* SpecSerial: one session from its creation on, its interview not ended:
\* the state after start_interview, then frame, tab-switch and status
\* calls one at a time.
InitSerial ==
  /\ now = 0
  /\ models_present = TRUE
  /\ trackers = <<>>
  /\ sessions = [s \in SessionIds |-> NewRow]
  /\ events = EmptyBag
  /\ response = [op |-> "start", session_id |-> 1]
  /\ exc = [s \in SessionIds |-> NoRun]
  /\ everAway = {}
  /\ calls = EmptyBag
  /\ orphans = [s \in SessionIds |-> <<>>]
  /\ issued = [s \in SessionIds |-> [gaze |-> 0, tab |-> 0]]

NextSerial ==
  \/ Tick
  \/ AnalyzeFrame
  \/ LogTabSwitch
  \/ GetViolationStatus

SpecSerial == InitSerial /\ [][NextSerial]_vars

\* SpecRestart: the process was restarted during an interview: the session
\* row and the event log hold one gaze violation, the tracker map is
\* empty.
InitRestart ==
  /\ now = 0
  /\ models_present = TRUE
  /\ trackers = <<>>
  /\ sessions = [s \in SessionIds |-> [NewRow EXCEPT !.gaze_violations = 1]]
  /\ events = SetToBag({[session_id |-> 1, event_type |-> "gaze_violation"]})
  /\ response = [op |-> "none"]
  /\ exc = [s \in SessionIds |-> NoRun]
  /\ everAway = {}
  /\ calls = EmptyBag
  /\ orphans = [s \in SessionIds |-> <<>>]
  /\ issued = [s \in SessionIds |-> [gaze |-> 1, tab |-> 0]]

SpecRestart == InitRestart /\ [][NextSerial]_vars

\* ------------------------------------------------------------ coroutines
\* SpecAsync: the handlers are coroutines on one event loop.  A step runs a
\* coroutine from the point where it resumed to its next await and
\* includes the database statement that await submits: the statements of
\* the single aiosqlite connection execute in submission order.

\* The number of handler calls made in SpecAsync.
MaxCalls == 3

\* The frames uploaded in SpecAsync.
AsyncFrames ==
  {f \in Frames : f.kind = "undecodable" \/ (f.kind = "pose" /\ f.yaw < 31)}

NoMetrics ==
  [is_face_detected |-> FALSE, is_looking_away |-> FALSE,
   head_pose |-> <<0, 0, 0>>, violation_message |-> ""]

\* The locals of a handler coroutine: metrics and current_violations of
\* analyze_frame, seen = the counter in the session row it fetched last
\* (None when there was no row), gen = which tracker object of the
\* session its face_service refers to.
NewCall(op, s, pc) ==
  [op |-> op, session_id |-> s, pc |-> pc, metrics |-> NoMetrics,
   current_violations |-> 0, seen |-> None, gen |-> 0]

\* The trackers of a session are numbered in creation order: those evicted
\* so far are orphans[s][1], orphans[s][2], ...; the one in the map, or
\* the next one created, has the number generation(s).
generation(s) == Len(orphans[s]) + 1

\* The tracker object the local face_service of call c refers to.
face_service(c) ==
  IF c.gen = generation(c.session_id)
  THEN trackers[c.session_id]
  ELSE orphans[c.session_id][c.gen]

\* The suspended frame-analysis calls whose face_service is the tracker of
\* session s now in the map.
holders(s) ==
  {c \in BagToSet(calls) :
     c.session_id = s /\ c.op = "frame" /\ c.pc # "done"
       /\ c.gen = generation(s)}

Suspend(c, d) == (calls (-) SetToBag({c})) (+) SetToBag({d})
Return(c) == Suspend(c, NewCall(c.op, c.session_id, "done"))

\* The response analyze_frame builds at its return statement.
FrameAnalysisResponse(s, metrics, should_terminate, violation_count) ==
  [op |-> "frame", session_id |-> s,
   face_detected |-> metrics.is_face_detected,
   looking_away |-> metrics.is_looking_away,
   violation_detected |-> violation_detected(metrics),
   should_terminate |-> should_terminate,
   violation_count |-> violation_count,
   message |-> IF metrics.violation_message # ""
               THEN metrics.violation_message
               ELSE "Frame analyzed successfully"]

\* Variant of gaze_update: the UPDATE writes the value the handler read
\* plus one.
gaze_update_from_read(tbl, s, seen) ==
  [tbl EXCEPT ![s].gaze_violations = seen + 1]

\* analyze_frame's counter UPDATE; the value the handler read is not used.
gaze_update(tbl, s, seen) == increment_violation(tbl, s, "gaze")

\* SpecAsync starts in the state Spec is in after start_interview, a
\* looking-away frame at time 0 and, looking_away_duration + 1 seconds
\* later, GazeLimit - 2 more looking-away frames: the tracker holds an
\* excursion older than the threshold and the session is two violations
\* short of the limit.  The clock stands still while the coroutines
\* interleave.
InitAsync ==
  /\ now = looking_away_duration + 1
  /\ models_present = TRUE
  /\ trackers = [s \in SessionIds |->
                   [looking_away_start_time |-> 0,
                    total_violations |-> GazeLimit - 2,
                    violation_count |-> GazeLimit - 2]]
  /\ sessions = [s \in SessionIds |->
                   [NewRow EXCEPT !.gaze_violations = GazeLimit - 2]]
  /\ events = [e \in {[session_id |-> 1, event_type |-> "gaze_violation"]}
                 |-> GazeLimit - 2]
  /\ response = FrameAnalysisResponse(1,
                   [NoMetrics EXCEPT !.is_face_detected = TRUE,
                                     !.is_looking_away = TRUE,
                                     !.head_pose = <<0, -45, 0>>,
                                     !.violation_message = "Looking away"],
                   FALSE, GazeLimit - 2)
  /\ exc = [s \in SessionIds |->
              [first |-> 0, viol |-> GazeLimit - 2, broke |-> FALSE]]
  /\ everAway = SessionIds
  /\ calls = EmptyBag
  /\ orphans = [s \in SessionIds |-> <<>>]
  /\ issued = [s \in SessionIds |-> [gaze |-> GazeLimit - 2, tab |-> 0]]

\* analyze_frame, lines 58-63: fetch the tracker, await frame.read().
FrameBegin(s) ==
  /\ BagCardinality(calls) < MaxCalls
  /\ IF s \notin DOMAIN trackers /\ ~models_present THEN
       /\ response' = frame_error(s)
       /\ UNCHANGED <<trackers, calls>>
     ELSE
       /\ trackers' = get_or_create_face_service(trackers, s)
       /\ calls' = calls (+) SetToBag({[NewCall("frame", s, "read")
                                          EXCEPT !.gen = generation(s)]})
       /\ UNCHANGED response
  /\ UNCHANGED <<orphans, now, models_present, sessions, events, exc, everAway, issued>>

\* analyze_frame, lines 64-91: decode, process the frame, await get_session.
FrameRead(c, f) ==
  LET s == c.session_id
  IN /\ c.op = "frame" /\ c.pc = "read"
     /\ IF img_is_None(f) THEN
          /\ response' = [op |-> "frame", session_id |-> s,
                          face_detected |-> FALSE, looking_away |-> FALSE,
                          violation_detected |-> FALSE,
                          should_terminate |-> FALSE, violation_count |-> 0,
                          message |-> "Invalid image data"]
          /\ calls' = Return(c)
          /\ UNCHANGED <<trackers, orphans>>
        ELSE
          LET r == service_process_frame(face_service(c), f, now)
          IN /\ r.tracker.total_violations <= MaxViolations
             /\ IF c.gen = generation(s)
                THEN /\ trackers' = [trackers EXCEPT ![s] = r.tracker]
                     /\ UNCHANGED orphans
                ELSE /\ orphans' = [orphans EXCEPT ![s][c.gen] = r.tracker]
                     /\ UNCHANGED trackers
             /\ calls' = Suspend(c,
                  [c EXCEPT !.pc = "got_session",
                            !.metrics = r.metrics,
                            !.current_violations = r.tracker.violation_count,
                            !.seen = IF s \in DOMAIN sessions
                                     THEN sessions[s].gaze_violations
                                     ELSE None])
             /\ UNCHANGED response
     /\ UNCHANGED <<now, models_present, sessions, events, exc, everAway, issued>>

\* analyze_frame, lines 112-137 on the session row the handler holds: the
\* termination test, the status UPDATE it awaits, or the response.
frame_decide(c, gaze_violations) ==
  LET s == c.session_id
      should_terminate == gaze_should_terminate([gaze_violations |-> gaze_violations])
  IN IF should_terminate THEN
       /\ sessions' = update_session_status(sessions, s, "terminated",
                        "excessive_gaze_violations", now)
       /\ calls' = Suspend(c, [c EXCEPT !.pc = "updated"])
       /\ UNCHANGED response
     ELSE
       /\ response' = FrameAnalysisResponse(s, c.metrics, FALSE,
                        face_service(c).violation_count)
       /\ calls' = Return(c)
       /\ UNCHANGED sessions

\* analyze_frame, lines 92-96 (and 112-137 when nothing new was counted).
FrameCompare(c) ==
  LET s == c.session_id
  IN /\ c.op = "frame" /\ c.pc = "got_session"
     /\ IF c.seen = None THEN
          \* session is None: session.get raises
          /\ response' = frame_error(s)
          /\ calls' = Return(c)
          /\ UNCHANGED <<sessions, issued>>
        ELSE IF new_violation(c.current_violations, c.seen) THEN
          /\ sessions' = gaze_update(sessions, s, c.seen)
          /\ issued' = [issued EXCEPT ![s].gaze = @ + 1]
          /\ calls' = Suspend(c, [c EXCEPT !.pc = "incremented"])
          /\ UNCHANGED response
        ELSE
          /\ frame_decide(c, c.seen)
          /\ UNCHANGED issued
     /\ UNCHANGED <<orphans, now, models_present, trackers, events, exc, everAway>>

\* analyze_frame, line 97: await log_proctoring_event.
FrameLog(c) ==
  /\ c.op = "frame" /\ c.pc = "incremented"
  /\ events' = log_proctoring_event(events, c.session_id, "gaze_violation")
  /\ calls' = Suspend(c, [c EXCEPT !.pc = "logged"])
  /\ UNCHANGED <<orphans, now, models_present, trackers, sessions, response, exc,
                 everAway, issued>>

\* analyze_frame, line 110: await get_session again.
FrameRefetch(c) ==
  /\ c.op = "frame" /\ c.pc = "logged"
  /\ calls' = Suspend(c, [c EXCEPT !.pc = "refetched",
                                   !.seen = sessions[c.session_id].gaze_violations])
  /\ UNCHANGED <<orphans, now, models_present, trackers, sessions, events, response,
                 exc, everAway, issued>>

\* analyze_frame, lines 112-137 after the re-fetch.
FrameDecide(c) ==
  /\ c.op = "frame" /\ c.pc = "refetched"
  /\ frame_decide(c, c.seen)
  /\ UNCHANGED <<orphans, now, models_present, trackers, events, exc, everAway, issued>>

\* analyze_frame, lines 123-137 after the status UPDATE.
FrameRespond(c) ==
  /\ c.op = "frame" /\ c.pc = "updated"
  /\ response' = FrameAnalysisResponse(c.session_id, c.metrics, TRUE,
                   face_service(c).violation_count)
  /\ calls' = Return(c)
  /\ UNCHANGED <<orphans, now, models_present, trackers, sessions, events, exc,
                 everAway, issued>>

\* log_tab_switch, line 162: await increment_violation.
TabSwitchBegin(s) ==
  /\ BagCardinality(calls) < MaxCalls
  /\ sessions' = increment_violation(sessions, s, "tab_switch")
  /\ issued' = IF s \in DOMAIN sessions
               THEN [issued EXCEPT ![s].tab = @ + 1] ELSE issued
  /\ calls' = calls (+) SetToBag({NewCall("tab_switch", s, "incremented")})
  /\ UNCHANGED <<orphans, now, models_present, trackers, events, response, exc, everAway>>

\* log_tab_switch, line 163: await log_proctoring_event.
TabSwitchLog(c) ==
  /\ c.op = "tab_switch" /\ c.pc = "incremented"
  /\ events' = log_proctoring_event(events, c.session_id, "tab_switch")
  /\ calls' = Suspend(c, [c EXCEPT !.pc = "logged"])
  /\ UNCHANGED <<orphans, now, models_present, trackers, sessions, response, exc,
                 everAway, issued>>

\* log_tab_switch, line 171: await get_session.
TabSwitchFetch(c) ==
  /\ c.op = "tab_switch" /\ c.pc = "logged"
  /\ calls' = Suspend(c,
       [c EXCEPT !.pc = "got_session",
                 !.seen = IF c.session_id \in DOMAIN sessions
                          THEN sessions[c.session_id].tab_switch_count
                          ELSE None])
  /\ UNCHANGED <<orphans, now, models_present, trackers, sessions, events, response,
                 exc, everAway, issued>>

\* log_tab_switch, lines 172-191: the termination test, the status UPDATE
\* it awaits, or the response.
TabSwitchDecide(c) ==
  LET s == c.session_id
      tab_switches == IF c.seen = None THEN 0 ELSE c.seen
      should_terminate == tab_should_terminate(tab_switches)
  IN /\ c.op = "tab_switch" /\ c.pc = "got_session"
     /\ IF should_terminate THEN
          /\ sessions' = update_session_status(sessions, s, "terminated",
                           "excessive_tab_switches", now)
          /\ calls' = Suspend(c, [c EXCEPT !.pc = "updated"])
          /\ UNCHANGED response
        ELSE
          /\ response' = [op |-> "tab_switch", session_id |-> s,
                          total_tab_switches |-> tab_switches,
                          should_terminate |-> FALSE]
          /\ calls' = Return(c)
          /\ UNCHANGED sessions
     /\ UNCHANGED <<orphans, now, models_present, trackers, events, exc, everAway, issued>>

\* log_tab_switch, lines 187-191 after the status UPDATE.
TabSwitchRespond(c) ==
  /\ c.op = "tab_switch" /\ c.pc = "updated"
  /\ response' = [op |-> "tab_switch", session_id |-> c.session_id,
                  total_tab_switches |-> c.seen, should_terminate |-> TRUE]
  /\ calls' = Return(c)
  /\ UNCHANGED <<orphans, now, models_present, trackers, sessions, events, exc,
                 everAway, issued>>

\* end_interview, line 316: await update_session_status.
EndBegin(s) ==
  /\ BagCardinality(calls) < MaxCalls
  /\ sessions' = update_session_status(sessions, s, "completed", NULL, now)
  /\ calls' = calls (+) SetToBag({NewCall("end", s, "updated")})
  /\ UNCHANGED <<orphans, now, models_present, trackers, events, response,
                 exc, everAway, issued>>

\* end_interview, lines 321-329: cleanup_face_service and the response.
\* The evicted tracker lives on while a suspended call refers to it; one
\* that no call refers to is garbage and is recorded as NewTracker.
EndRespond(c) ==
  LET s == c.session_id
  IN /\ c.op = "end" /\ c.pc = "updated"
     /\ trackers' = cleanup_face_service(trackers, s)
     /\ orphans' = IF s \in DOMAIN trackers
                   THEN [orphans EXCEPT ![s] =
                           Append(@, IF holders(s) # {} THEN trackers[s]
                                     ELSE NewTracker)]
                   ELSE orphans
     /\ response' = [op |-> "end", session_id |-> s]
     /\ calls' = Return(c)
     /\ UNCHANGED <<now, models_present, sessions, events, exc, everAway, issued>>

NextAsync ==
  \/ \E s \in SessionIds : FrameBegin(s)
  \/ \E c \in BagToSet(calls), f \in AsyncFrames : FrameRead(c, f)
  \/ \E c \in BagToSet(calls) : FrameCompare(c)
  \/ \E c \in BagToSet(calls) : FrameLog(c)
  \/ \E c \in BagToSet(calls) : FrameRefetch(c)
  \/ \E c \in BagToSet(calls) : FrameDecide(c)
  \/ \E c \in BagToSet(calls) : FrameRespond(c)
  \/ \E s \in SessionIds : TabSwitchBegin(s)
  \/ \E c \in BagToSet(calls) : TabSwitchLog(c)
  \/ \E c \in BagToSet(calls) : TabSwitchFetch(c)
  \/ \E c \in BagToSet(calls) : TabSwitchDecide(c)
  \/ \E c \in BagToSet(calls) : TabSwitchRespond(c)
  \/ \E s \in SessionIds : EndBegin(s)
  \/ \E c \in BagToSet(calls) : EndRespond(c)

SpecAsync == InitAsync /\ [][NextAsync]_vars

\* ------------------------------------------------------------ two sessions

\* Two interviews run in the same process.
PairIds == {1, 2}

\* The handler calls made in SpecPair.
MaxPairCalls == 2

\* SpecPair starts with both sessions in the state SpecAsync starts
\* session 1 in; the coroutines of calls for either session interleave.
InitPair ==
  /\ now = looking_away_duration + 1
  /\ models_present = TRUE
  /\ trackers = [s \in PairIds |->
                   [looking_away_start_time |-> 0,
                    total_violations |-> GazeLimit - 2,
                    violation_count |-> GazeLimit - 2]]
  /\ sessions = [s \in PairIds |->
                   [NewRow EXCEPT !.gaze_violations = GazeLimit - 2]]
  /\ events = [e \in {[session_id |-> s, event_type |-> "gaze_violation"] :
                         s \in PairIds}
                 |-> GazeLimit - 2]
  /\ response = FrameAnalysisResponse(1,
                   [NoMetrics EXCEPT !.is_face_detected = TRUE,
                                     !.is_looking_away = TRUE,
                                     !.head_pose = <<0, -45, 0>>,
                                     !.violation_message = "Looking away"],
                   FALSE, GazeLimit - 2)
  /\ exc = [s \in PairIds |->
              [first |-> 0, viol |-> GazeLimit - 2, broke |-> FALSE]]
  /\ everAway = PairIds
  /\ calls = EmptyBag
  /\ orphans = [s \in PairIds |-> <<>>]
  /\ issued = [s \in PairIds |-> [gaze |-> GazeLimit - 2, tab |-> 0]]

\* A request is accepted while fewer than MaxPairCalls were made.
Accepting == BagCardinality(calls) < MaxPairCalls

NextPair ==
  \/ \E s \in PairIds : Accepting /\ FrameBegin(s)
  \/ \E c \in BagToSet(calls), f \in AsyncFrames : FrameRead(c, f)
  \/ \E c \in BagToSet(calls) : FrameCompare(c)
  \/ \E c \in BagToSet(calls) : FrameLog(c)
  \/ \E c \in BagToSet(calls) : FrameRefetch(c)
  \/ \E c \in BagToSet(calls) : FrameDecide(c)
  \/ \E c \in BagToSet(calls) : FrameRespond(c)
  \/ \E s \in PairIds : Accepting /\ TabSwitchBegin(s)
  \/ \E c \in BagToSet(calls) : TabSwitchLog(c)
  \/ \E c \in BagToSet(calls) : TabSwitchFetch(c)
  \/ \E c \in BagToSet(calls) : TabSwitchDecide(c)
  \/ \E c \in BagToSet(calls) : TabSwitchRespond(c)
  \/ \E s \in PairIds : Accepting /\ EndBegin(s)
  \/ \E c \in BagToSet(calls) : EndRespond(c)

SpecPair == InitPair /\ [][NextPair]_vars

\* ------------------------------------------------------------ properties

\* The step is a frame-analysis call for session s.
FrameCall(s) == \E f \in Frames : analyze_frame(s, f)

\* The step is a frame-analysis or a tab-switch call for session s.
ProctoringCall(s) == FrameCall(s) \/ log_tab_switch(s)

\* SessionTerminationPolicy.decide on a session row.
decide(row) ==
  IF row.gaze_violations >= GazeLimit THEN "excessive_gaze_violations"
  ELSE IF row.tab_switch_count >= TabLimit THEN "excessive_tab_switches"
  ELSE NULL

\* C1: one excursion (a maximal run of consecutive looking-away frames)
\* never increases the gaze violation count more than once, however many
\* looking-away frames are sampled during it.
C1_OncePerExcursion ==
  \A s \in SessionIds : s \in DOMAIN sessions => exc[s].viol <= 1

\* C2: as long as no processed frame of a session had |yaw| above the
\* threshold, the tracker's violation counts and the durable
\* gaze_violations counter of that session are 0.
C2_NoExcursionNoViolation ==
  \A s \in SessionIds :
    s \notin everAway =>
      /\ s \in DOMAIN trackers =>
            /\ trackers[s].total_violations = 0
            /\ trackers[s].violation_count = 0
      /\ s \in DOMAIN sessions => sessions[s].gaze_violations = 0

C2_Witness ==
  /\ 1 \in DOMAIN sessions /\ 1 \in DOMAIN trackers
  /\ 1 \notin everAway
  /\ now > looking_away_duration
  /\ response.op = "frame" /\ response.face_detected
  /\ response.message = "Frame analyzed successfully"
  /\ trackers[1].total_violations = 0
  /\ sessions[1].gaze_violations = 0

\* C3: when a frame with |yaw| <= threshold follows an excursion before
\* looking_away_duration has elapsed since the excursion's first frame,
\* the excursion has recorded no violation and the frame clears the
\* tracker's excursion start.
C3_ShortExcursionRecordsNothing ==
  [][\A s \in SessionIds : \A f \in Frames :
       ( /\ s \in DOMAIN sessions
         /\ f.kind = "pose" /\ ~Away(f)
         /\ exc[s].first # None
         /\ now - exc[s].first < looking_away_duration
         /\ analyze_frame(s, f) )
       => /\ exc[s].viol = 0
          /\ trackers'[s].looking_away_start_time = None]_vars

\* C4: a frame without a single face (no face, several faces) that arrives
\* while an excursion is pending clears the excursion start and leaves the
\* tracker's violation counts alone, whatever the time elapsed; a
\* looking-away frame that finds no pending start sets it to the current
\* time and counts nothing.
C4_FaceLossResetsExcursion ==
  [][\A s \in SessionIds : \A f \in Frames :
       s \in DOMAIN trackers =>
         /\ ( /\ f.kind \in {"no_face", "multiple_faces"}
              /\ trackers[s].looking_away_start_time # None
              /\ response'.op = "frame"
              /\ analyze_frame(s, f) )
            => /\ trackers'[s].looking_away_start_time = None
               /\ trackers'[s].total_violations = trackers[s].total_violations
               /\ trackers'[s].violation_count = trackers[s].violation_count
               /\ exc'[s].first = None
         /\ ( /\ Away(f)
              /\ trackers[s].looking_away_start_time = None
              /\ response'.op = "frame"
              /\ analyze_frame(s, f) )
            => /\ trackers'[s].looking_away_start_time = now
               /\ trackers'[s].total_violations = trackers[s].total_violations]_vars

C4_Witness ==
  /\ 1 \in DOMAIN trackers
  /\ response.op = "frame" /\ response.message = "No face detected"
  /\ exc[1].broke
  /\ trackers[1].looking_away_start_time = None
  /\ trackers[1].total_violations = 0

\* C5: no frame-analysis call that leaves the durable gaze counter below
\* the limit answers should_terminate = TRUE; the call that brings the
\* counter to the limit answers should_terminate = TRUE and leaves the
\* session terminated for excessive gaze violations.
C5_TerminateAtGazeLimit ==
  [][\A s \in SessionIds :
       /\ ~( /\ response'.op = "frame"
             /\ response'.should_terminate
             /\ (s \notin DOMAIN sessions
                   \/ sessions'[s].gaze_violations < GazeLimit)
             /\ FrameCall(s) )
       /\ ( /\ s \in DOMAIN sessions
            /\ sessions[s].gaze_violations < GazeLimit
            /\ sessions'[s].gaze_violations >= GazeLimit
            /\ FrameCall(s) )
          => /\ response'.should_terminate
             /\ sessions'[s].status = "terminated"
             /\ sessions'[s].termination_reason = "excessive_gaze_violations"]_vars

C5_Witness ==
  /\ 1 \in DOMAIN sessions
  /\ response.op = "frame" /\ response.should_terminate
  /\ sessions[1].gaze_violations = GazeLimit
  /\ sessions[1].status = "terminated"
  /\ sessions[1].termination_reason = "excessive_gaze_violations"

\* C6: on an in_progress session with tab_switch_count = 0 the first
\* tab-switch call answers (1, FALSE) and leaves the status in_progress;
\* the second answers (2, TRUE) and leaves the session terminated for
\* excessive tab switches.
C6_TerminateAtSecondTabSwitch ==
  [][\A s \in SessionIds :
       ( /\ s \in DOMAIN sessions
         /\ sessions[s].status = "in_progress"
         /\ sessions[s].tab_switch_count \in {0, 1}
         /\ response'.op = "tab_switch"
         /\ log_tab_switch(s) )
       => /\ sessions[s].tab_switch_count = 0
             => /\ response'.total_tab_switches = 1
                /\ ~response'.should_terminate
                /\ sessions'[s].status = "in_progress"
          /\ sessions[s].tab_switch_count = 1
             => /\ response'.total_tab_switches = 2
                /\ response'.should_terminate
                /\ sessions'[s].status = "terminated"
                /\ sessions'[s].termination_reason = "excessive_tab_switches"]_vars

C6_Witness ==
  /\ 1 \in DOMAIN sessions
  /\ response.op = "tab_switch" /\ response.total_tab_switches = 2
  /\ response.should_terminate
  /\ sessions[1].tab_switch_count = 2
  /\ sessions[1].status = "terminated"
  /\ sessions[1].termination_reason = "excessive_tab_switches"

\* C7: once a session's status is not in_progress, a tab-switch or
\* frame-analysis call for it changes neither counter and appends no event.
C7_ClosedSessionCallsAreNoOps ==
  [][\A s \in SessionIds :
       ( /\ s \in DOMAIN sessions
         /\ sessions[s].status # "in_progress"
         /\ ProctoringCall(s) )
       => /\ sessions'[s].gaze_violations = sessions[s].gaze_violations
          /\ sessions'[s].tab_switch_count = sessions[s].tab_switch_count
          /\ events' = events]_vars

\* C8: once a session's status is completed or terminated, no step
\* changes it.
C8_StatusIsTerminal ==
  [][\A s \in DOMAIN sessions :
       sessions[s].status # "in_progress"
       => sessions'[s].status = sessions[s].status]_vars

\* C9: a frame-analysis or tab-switch call on a terminated session leaves
\* termination_reason and end_time as the first termination set them.
C9_TerminationIsIdempotent ==
  [][\A s \in SessionIds :
       ( /\ s \in DOMAIN sessions
         /\ sessions[s].status = "terminated"
         /\ ProctoringCall(s) )
       => /\ sessions'[s].termination_reason = sessions[s].termination_reason
          /\ sessions'[s].end_time = sessions[s].end_time]_vars

\* C10: whenever a frame-analysis or tab-switch call applies termination,
\* the termination_reason it records is decide() of the counters at that
\* moment (gaze limit first, tab limit second).
C10_ReasonFollowsPolicy ==
  [][\A s \in SessionIds :
       ( /\ s \in DOMAIN sessions
         /\ response'.op \in {"frame", "tab_switch"}
         /\ response'.should_terminate
         /\ ProctoringCall(s) )
       => /\ sessions'[s].status = "terminated"
          /\ sessions'[s].termination_reason = decide(sessions'[s])]_vars

\* C11: once end_interview has completed a session and evicted its tracker,
\* a frame-analysis call for that session creates no tracker: the tracker
\* map still has no entry for the session after the call.
C11_EndedSessionGetsNoTracker ==
  [][\A s \in SessionIds :
       ( /\ s \in DOMAIN sessions
         /\ sessions[s].status = "completed"
         /\ s \notin DOMAIN trackers
         /\ response'.op = "frame"
         /\ FrameCall(s) )
       => s \notin DOMAIN trackers']_vars

\* C14: a frame-analysis call whose buffer does not decode answers with
\* face_detected, looking_away, violation_detected and should_terminate all
\* FALSE and the message "Invalid image data"; it leaves the session rows
\* and the event log as they were, and the session's tracker as it was (a
\* session without a tracker gets a fresh one: no pending excursion, no
\* violation).
C14_UndecodableFrameIsHarmless ==
  [][\A s \in SessionIds : \A f \in Frames :
       ( /\ f.kind = "undecodable"
         /\ s \in DOMAIN trackers \/ models_present
         /\ response'.op = "frame"
         /\ analyze_frame(s, f) )
       => /\ ~response'.face_detected
          /\ ~response'.looking_away
          /\ ~response'.violation_detected
          /\ ~response'.should_terminate
          /\ response'.message = "Invalid image data"
          /\ sessions' = sessions
          /\ events' = events
          /\ s \in DOMAIN trackers'
          /\ trackers'[s] = IF s \in DOMAIN trackers THEN trackers[s]
                            ELSE NewTracker]_vars

C14_Witness ==
  /\ 1 \in DOMAIN sessions /\ 1 \in DOMAIN trackers
  /\ response.op = "frame" /\ response.message = "Invalid image data"
  /\ trackers[1].looking_away_start_time # None
  /\ trackers[1].total_violations > 0
  /\ sessions[1].status = "in_progress"

\* C15: a frame whose perspective-n-point solve failed does not get the
\* neutral pose (0, 0, 0) from estimate_head_pose and is not answered as a
\* successfully analysed forward-facing frame.
C15_FailedSolveIsNotNeutralPose ==
  [][\A s \in SessionIds : \A f \in Frames :
       ( /\ f.kind = "pnp_failed"
         /\ s \in DOMAIN sessions
         /\ response'.op = "frame"
         /\ analyze_frame(s, f) )
       => /\ estimate_head_pose(f) # <<0, 0, 0>>
          /\ response'.message # "Frame analyzed successfully"]_vars

\* C16: while the model files are missing the service answers no
\* frame-analysis call: no state has a frame-analysis response in it.
C16_NoFrameResponseWithoutModels ==
  ~models_present => response.op # "frame"

\* C17: the status query on an existing session answers 200 with the
\* durable counters and the termination policy applied to them, and
\* changes neither the tracker map nor the tables.
C17_StatusQuerySucceeds ==
  [][\A s \in SessionIds :
       ( /\ s \in DOMAIN sessions
         /\ response'.op = "status"
         /\ get_violation_status(s) )
       => /\ response'.http = 200
          /\ response'.gaze_violations = sessions[s].gaze_violations
          /\ response'.tab_switches = sessions[s].tab_switch_count
          /\ response'.termination_reason = decide(sessions[s])
          /\ response'.should_terminate = (decide(sessions[s]) # NULL)
          /\ trackers' = trackers
          /\ sessions' = sessions
          /\ events' = events]_vars

\* C18: after every frame the tracker processed, the excursion start is set
\* exactly when that frame was a single face with |yaw| above the
\* threshold, and a frame whose pose is unknown (landmarks missing, solve
\* failed, processing raised) counts no violation.
C18_StartSetIffLastFrameAway ==
  [][\A s \in SessionIds : \A f \in Frames :
       ( /\ f.kind # "undecodable"
         /\ s \in DOMAIN sessions
         /\ response'.op = "frame"
         /\ s \in DOMAIN trackers'
         /\ analyze_frame(s, f) )
       => /\ (trackers'[s].looking_away_start_time # None) <=> Away(f)
          /\ f.kind \in {"landmarks_none", "pnp_failed", "processing_error"}
             => /\ s \in DOMAIN trackers
                   => trackers'[s].total_violations = trackers[s].total_violations
                /\ s \notin DOMAIN trackers
                   => trackers'[s].total_violations = 0]_vars

\* C19: a frame with more than one face is answered with the
\* multiple-faces message, not the no-face message.
C19_MultipleFacesMessage ==
  [][\A s \in SessionIds : \A f \in Frames :
       ( /\ f.kind = "multiple_faces"
         /\ s \in DOMAIN sessions
         /\ response'.op = "frame"
         /\ analyze_frame(s, f) )
       => response'.message = "Multiple faces detected"]_vars

\* C20: after a frame-analysis or tab-switch call that answers
\* should_terminate = TRUE the tracker map has no entry for the session.
C20_TerminationDestroysTracker ==
  [][\A s \in SessionIds :
       ( /\ response'.op \in {"frame", "tab_switch"}
         /\ response'.should_terminate
         /\ ProctoringCall(s) )
       => s \notin DOMAIN trackers']_vars

\* The frame-analysis coroutines of session s that are suspended.
FrameCalls(s) ==
  {c \in BagToSet(calls) : c.op = "frame" /\ c.session_id = s /\ c.pc # "done"}

\* C12: at most one frame-analysis call per session is between its start
\* and its response.
C12_FramesSerialized ==
  \A s \in SessionIds :
    \A c, d \in FrameCalls(s) : c = d /\ CopiesIn(c, calls) = 1

\* C13: no counter UPDATE is lost: in every state reached by interleaved
\* tab-switch and frame-analysis coroutines, tab_switch_count is the number
\* of tab-switch UPDATEs executed and gaze_violations the number of gaze
\* UPDATEs executed.
C13_NoLostUpdates ==
  \A s \in DOMAIN sessions :
    /\ sessions[s].tab_switch_count = issued[s].tab
    /\ sessions[s].gaze_violations = issued[s].gaze

\* Two frame coroutines read the same gaze_violations, both executed their
\* UPDATE, and a tab-switch coroutine is suspended between them.
C13_Witness ==
  /\ \E c \in FrameCalls(1) :
       /\ c.pc = "incremented"
       /\ \E d \in FrameCalls(1) :
            /\ d.pc \in {"incremented", "logged"}
            /\ d.seen = c.seen
            /\ d # c \/ CopiesIn(c, calls) = 2
            /\ sessions[1].gaze_violations = c.seen + 2
  /\ issued[1].tab >= 1

\* C21: a looking-away frame processed exactly looking_away_duration after
\* the excursion start counts the violation.
C21_DurationTestInclusive ==
  [][\A s \in SessionIds : \A f \in Frames :
       ( /\ Away(f)
         /\ s \in DOMAIN sessions /\ s \in DOMAIN trackers
         /\ trackers[s].looking_away_start_time # None
         /\ now - trackers[s].looking_away_start_time = looking_away_duration
         /\ trackers[s].total_violations = 0
         /\ response'.op = "frame"
         /\ analyze_frame(s, f) )
       => trackers'[s].total_violations = 1]_vars

\* C28: every frame-analysis response has
\* violation_detected = face_detected /\ looking_away; on a looking-away
\* frame that starts an excursion it is TRUE while the tracker's
\* violation counts stay as they were.
C28_ViolationDetectedIsFaceAndAway ==
  [][/\ response'.op = "frame"
        => response'.violation_detected
             = (response'.face_detected /\ response'.looking_away)
     /\ \A s \in SessionIds : \A f \in Frames :
          ( /\ Away(f)
            /\ response'.op = "frame"
            /\ s \in DOMAIN sessions
            /\ s \in DOMAIN trackers
                 => trackers[s].looking_away_start_time = None
            /\ s \in DOMAIN trackers'
            /\ analyze_frame(s, f) )
          => /\ response'.violation_detected
             /\ trackers'[s].looking_away_start_time = now
             /\ trackers'[s].total_violations
                  = IF s \in DOMAIN trackers
                    THEN trackers[s].total_violations ELSE 0
             /\ trackers'[s].violation_count
                  = IF s \in DOMAIN trackers
                    THEN trackers[s].violation_count ELSE 0]_vars

C28_Witness ==
  /\ 1 \in DOMAIN sessions /\ 1 \in DOMAIN trackers
  /\ response.op = "frame" /\ response.violation_detected
  /\ response.message = "Looking away"
  /\ response.violation_count = 0
  /\ trackers[1].looking_away_start_time = now
  /\ trackers[1].total_violations = 0
  /\ sessions[1].gaze_violations = 0

\* C29: every frame-analysis response for a session whose status is
\* terminated has should_terminate = TRUE.
C29_TerminateIsSticky ==
  [][\A s \in SessionIds :
       ( /\ s \in DOMAIN sessions
         /\ sessions[s].status = "terminated"
         /\ response'.op = "frame"
         /\ FrameCall(s) )
       => response'.should_terminate]_vars

\* C30: every event in the log and every tracker in the map belongs to an
\* existing session row.
C30_NoTraceWithoutSessionRow ==
  /\ \A e \in BagToSet(events) : e.session_id \in DOMAIN sessions
  /\ DOMAIN trackers \subseteq DOMAIN sessions

\* C25: with the calls of a session run one at a time and its tracker
\* never evicted, gaze_violations equals the tracker's violation_count
\* after every call (0 while the session has no tracker).
C25_DurableCounterFollowsTracker ==
  \A s \in DOMAIN sessions :
    sessions[s].gaze_violations
      = IF s \in DOMAIN trackers THEN trackers[s].violation_count ELSE 0

C25_Witness ==
  /\ 1 \in DOMAIN trackers
  /\ response.op = "frame" /\ response.violation_count = 2
  /\ trackers[1].violation_count = 2
  /\ sessions[1].gaze_violations = 2

\* C26: a frame-analysis call in which the tracker's violation count
\* increases raises gaze_violations by one, also when the tracker was
\* created anew for a session whose gaze_violations is above zero.
C26_EveryTrackerViolationPersisted ==
  [][\A s \in SessionIds :
       ( /\ response'.op = "frame"
         /\ s \in DOMAIN sessions
         /\ s \in DOMAIN trackers /\ s \in DOMAIN trackers'
         /\ trackers'[s].violation_count > trackers[s].violation_count
         /\ FrameCall(s) )
       => sessions'[s].gaze_violations = sessions[s].gaze_violations + 1]_vars

\* The number of events of one kind logged for session s.
logged(s, event_type) ==
  CopiesIn([session_id |-> s, event_type |-> event_type], events)

\* C22: once end_interview has set a session's status to completed, no
\* frame-analysis call writes to its record: gaze_violations and the gaze
\* events stay as they are and the session is not terminated for gaze
\* violations.
C22_NoFrameWriteAfterCompleted ==
  [][\A s \in DOMAIN sessions :
       sessions[s].status = "completed"
       => /\ sessions'[s].gaze_violations = sessions[s].gaze_violations
          /\ logged(s, "gaze_violation")' = logged(s, "gaze_violation")
          /\ sessions'[s].termination_reason # "excessive_gaze_violations"]_vars

\* C23: in every state the number of gaze_violation events of a session
\* equals its gaze_violations and the number of tab_switch events its
\* tab_switch_count.
C23_CountersMatchEvents ==
  \A s \in DOMAIN sessions :
    /\ logged(s, "gaze_violation") = sessions[s].gaze_violations
    /\ logged(s, "tab_switch") = sessions[s].tab_switch_count

\* C27: while a session keeps its first tracker, gaze_violations never
\* exceeds that tracker's violation_count, however the frame-analysis
\* calls interleave.
C27_DurableNeverAheadOfTracker ==
  \A s \in DOMAIN sessions :
    (s \in DOMAIN trackers /\ orphans[s] = <<>>)
    => sessions[s].gaze_violations <= trackers[s].violation_count

\* The step belongs to a frame-analysis, tab-switch or end-interview call
\* for session a: the call is accepted or resumes after an await.
StepOfSession(a) ==
  \/ FrameBegin(a) \/ TabSwitchBegin(a) \/ EndBegin(a)
  \/ \E c \in BagToSet(calls) :
       /\ c.session_id = a
       /\ \/ \E f \in AsyncFrames : FrameRead(c, f)
          \/ FrameCompare(c) \/ FrameLog(c) \/ FrameRefetch(c)
          \/ FrameDecide(c) \/ FrameRespond(c)
          \/ TabSwitchLog(c) \/ TabSwitchFetch(c)
          \/ TabSwitchDecide(c) \/ TabSwitchRespond(c)
          \/ EndRespond(c)

\* What the process holds for session b: its tracker in the map (or none),
\* the evicted trackers, the session row, the events logged.
session_state(b) ==
  [tracker |-> IF b \in DOMAIN trackers THEN <<trackers[b]>> ELSE <<>>,
   orphans |-> orphans[b],
   row |-> sessions[b],
   gaze_events |-> logged(b, "gaze_violation"),
   tab_events |-> logged(b, "tab_switch")]

\* C24: a step of a frame-analysis, tab-switch or end-interview call for
\* session a leaves unchanged, for every other session b, b's tracker
\* (pending excursion start and violation count), its durable counters,
\* its status and its termination_reason (and its logged events).
C24_SessionIsolation ==
  [][\A a \in PairIds : \A b \in PairIds \ {a} :
       StepOfSession(a) => session_state(b)' = session_state(b)]_vars

\* A frame of session 1 counted a violation and the session was ended,
\* its tracker evicted, while session 2 is as it started.
C24_Witness ==
  /\ 1 \notin DOMAIN trackers
  /\ sessions[1].status = "completed"
  /\ sessions[1].gaze_violations > GazeLimit - 2
  /\ 2 \in DOMAIN trackers
  /\ trackers[2].violation_count = GazeLimit - 2
  /\ trackers[2].looking_away_start_time = 0
  /\ sessions[2] = [NewRow EXCEPT !.gaze_violations = GazeLimit - 2]

====
